---- MODULE Spec2Model ----
(***************************************************************************)
(* pcdsdevices: the offset-mirror motor (epics/mirror.py, OMMotor) and the *)
(* task scheduling helper (utils.py, schedule_task).                       *)
(*                                                                         *)
(* Spec      : OMMotor. One caller thread runs move() while the dispatcher *)
(*             delivers done-move updates to _move_changed; the two run    *)
(*             without a lock, so their steps interleave. The signals read *)
(*             at a completion are inputs of the step that reads them.     *)
(* SchedSpec : schedule_task called from worker threads and from an        *)
(*             external thread, with and without a delay.                  *)
(* TrackerSpec : the two subscriptions of OMMotor alone, _move_changed and *)
(*             _pos_changed, with no move request, while the connection to *)
(*             the signals comes and goes.                                 *)
(* SignalSpec : _move_changed with no move request while the limit         *)
(*             switches, the direction of travel and the alarm change.     *)
(* MotionSpec : _move_changed over longer runs of done-move updates, with  *)
(*             move requests that do not wait.                             *)
(* SimSpec   : sim.OMMotor, whose move drives the fake signals itself and   *)
(*             so runs the inherited handlers on the caller's thread.      *)
(* LinkSpec  : the properties of OMMotor and move() read and called while  *)
(*             the connection to the signals comes and goes.               *)
(* InputSpec : utils.get_input reading keys from the terminal.             *)
(***************************************************************************)
EXTENDS Integers, Sequences, FiniteSets

\* ------------------------------------------------------------- bounds
MaxUpdates == 3
MaxMoves == 2
MaxTasks == 3
\* TrackerSpec: done-move updates delivered.
MaxTrackerUpdates == 4
\* InputSpec: characters typed at the terminal, calls of get_input.
MaxTyped == 6
MaxCalls == 2
\* SimSpec: calls of move on the simulated motor.
MaxSimMoves == 2

\* ------------------------------------------------------------- domains
\* Values of the done-move signal: 1 is "done", anything else is "moving".
DoneMoveValues == {0, 1, 2}
\* direction_of_travel: 0 towards the low limit, 1 towards the high limit.
Directions == {0, 1}
\* Limit switch readings.
LimitValues == {0, 1}
\* ophyd AlarmSeverity members.
Severities == {"NO_ALARM", "MINOR", "MAJOR"}
\* user_setpoint limits (low, high); check_value applies them when low < high.
LimitSettings == {<<0, 1>>}
Positions == {1, 2}
Waits == {TRUE, FALSE}

\* The dispatcher's named worker threads and the threads that call schedule_task.
Workers == {"A", "B"}
Callers == Workers \cup {"ext"}
TimerThread == "timer"
Utility == "utility"
Queues == Workers \cup {Utility}

\* The properties of OMMotor that read a live signal value.
Properties == {"precision", "limits", "moving", "position", "report"}
\* Terminal settings of stdin as tcgetattr returns them; "cbreak" is what
\* tty.setcbreak leaves.
TerminalModes == {"cooked", "raw"}
\* Characters typed at the terminal; "ESC" is '\x1b', "[" and "1" also stand
\* for the keys that are no part of an escape sequence.
Chars == {"ESC", "[", "1"}

VARIABLES
    \* PositionerBase state of the OMMotor
    _moving, _started_moving, _position,
    \* user_setpoint: its value and its limits
    user_setpoint, limits,
    \* _move_changed in progress: position in the handler and its locals
    cb_pc, cb_value, cb_timestamp, cb_was_moving, cb_tested, cb_started,
    cb_read, cb_success,
    \* move() in progress: position in the method and its locals
    mv_pc, mv_position, mv_wait, mv_status, mv_result, mv_wrote, mv_stops,
    \* status objects and the _SUB_REQ_DONE subscription
    status, req_done,
    \* observations: delivered done-move values, emitted events, start events
    \* since the last move request, move requests so far
    delivered, events, starts_since_move, n_moves,
    \* the device's connection to its signals, the last property read and its
    \* outcome, the last user_readback value delivered, whether a subscription
    \* handler has raised to its caller
    connected, prop_read, readback, raised,
    \* direction_of_travel, low_limit_switch, high_limit_switch and the alarm
    \* severity of user_readback where their changes are followed (SignalSpec);
    \* Untracked where they are inputs of the step that reads them
    signals,
    \* schedule_task
    queue, timers, calls, ran,
    \* get_input: the terminal settings of stdin, the characters waiting on it,
    \* position in the function and its locals, how the last call ended and
    \* what it returned, characters typed and calls made so far
    term, stdin, gi_pc, old_settings, inp, extra_inp, gi_interrupted,
    gi_result, gi_returned, n_typed, n_calls,
    \* sim.OMMotor: position in its move and the position asked for, the
    \* motor_is_moving and motor_done_move signals, whether the last call has
    \* returned, calls of move so far
    sim_pc, sim_position, motor_is_moving, motor_done_move, sim_returned,
    n_sim_moves

cbVars == <<cb_pc, cb_value, cb_timestamp, cb_was_moving, cb_tested, cb_started,
            cb_read, cb_success>>
mvVars == <<mv_pc, mv_position, mv_wait, mv_status, mv_result, mv_wrote,
            mv_stops>>
linkVars == <<connected, prop_read, readback, raised, signals>>
motorVars == <<_moving, _started_moving, _position, user_setpoint, limits,
               linkVars, cbVars, mvVars, status, req_done, delivered, events,
               starts_since_move, n_moves>>
schedVars == <<queue, timers, calls, ran>>
inputVars == <<term, stdin, gi_pc, old_settings, inp, extra_inp,
               gi_interrupted, gi_result, gi_returned, n_typed, n_calls>>
simVars == <<sim_pc, sim_position, motor_is_moving, motor_done_move,
             sim_returned, n_sim_moves>>
vars == <<motorVars, schedVars, inputVars, simVars>>

NoPosition == -1
NoStatus == 0
\* What the handler has read of direction_of_travel, low_limit_switch,
\* high_limit_switch and alarm_severity; NoRead before line 168.
NoRead == <<>>
Untracked == <<>>
AllSignalValues == Directions \X LimitValues \X LimitValues \X Severities
\* No property has been read yet.
NoPropRead == [property |-> "none", raised |-> "none", value |-> "none"]
\* inp = None (line 67)
NoInput == <<>>

\* ------------------------------------------------------------- Init
MotorInit ==
    /\ _moving = FALSE
    /\ _started_moving = FALSE
    /\ _position = NoPosition
    /\ user_setpoint = 0
    /\ limits \in LimitSettings
    /\ cb_pc = "idle"
    /\ cb_value = 1
    /\ cb_timestamp = 0
    /\ cb_was_moving = FALSE
    /\ cb_tested = FALSE
    /\ cb_started = FALSE
    /\ cb_read = NoRead
    /\ cb_success = TRUE
    /\ mv_pc = "idle"
    /\ mv_position = 0
    /\ mv_wait = FALSE
    /\ mv_status = NoStatus
    /\ mv_result = "none"
    /\ mv_wrote = FALSE
    /\ mv_stops = 0
    /\ status = [s \in 1 .. MaxMoves |-> "none"]
    /\ req_done = NoStatus
    /\ delivered = <<>>
    /\ events = <<>>
    /\ starts_since_move = 0
    /\ n_moves = 0
    /\ connected = TRUE
    /\ prop_read = NoPropRead
    /\ readback = NoPosition
    /\ raised = FALSE
    /\ signals = Untracked

SchedInit ==
    /\ queue = [q \in Queues |-> <<>>]
    /\ timers = {}
    /\ calls = <<>>
    /\ ran = [q \in Queues |-> <<>>]

InputInit ==
    /\ term = "cooked"
    /\ stdin = <<>>
    /\ gi_pc = "idle"
    /\ old_settings = "cooked"
    /\ inp = NoInput
    /\ extra_inp = <<>>
    /\ gi_interrupted = FALSE
    /\ gi_result = "none"
    /\ gi_returned = NoInput
    /\ n_typed = 0
    /\ n_calls = 0

\* sim/mirror.py lines 36-37: motor_is_moving = 0, motor_done_move = 1
SimInit ==
    /\ sim_pc = "unbuilt"
    /\ sim_position = 0
    /\ motor_is_moving = 0
    /\ motor_done_move = 1
    /\ sim_returned = FALSE
    /\ n_sim_moves = 0

Init == MotorInit /\ SchedInit /\ InputInit /\ SimInit

\* ------------------------------------------------------------- _move_changed
\* The handler's locals once it has returned.
CallbackReturns ==
    /\ cb_pc' = "idle"
    /\ cb_value' = 1
    /\ cb_timestamp' = 0
    /\ cb_was_moving' = FALSE
    /\ cb_tested' = FALSE
    /\ cb_started' = FALSE
    /\ cb_read' = NoRead
    /\ cb_success' = TRUE

\* Only the value 0 counts as moving.
IsMoving_Zero(value) == value = 0

\* Line 152: self._moving = (value != 1)
IsMoving(value) == value # 1

\* Lines 151-152: was_moving = self._moving; self._moving = (value != 1)
MoveChangedEntry(value) ==
    /\ cb_pc = "idle"
    /\ delivered' = Append(delivered, value)
    /\ cb_value' = value
    /\ cb_timestamp' = Len(delivered) + 1
    /\ cb_was_moving' = _moving
    /\ _moving' = IsMoving(value)
    /\ cb_pc' = "L155"
    /\ UNCHANGED <<_started_moving, _position, user_setpoint, limits, linkVars,
                   cb_tested, cb_started, cb_read, cb_success,
                   mvVars, status, req_done, events, starts_since_move, n_moves, schedVars,
                   inputVars>>

\* The dispatcher delivers a done-move update while move requests come in.
MoveChangedBegin(value) ==
    /\ Len(delivered) < MaxUpdates
    /\ MoveChangedEntry(value)
    /\ UNCHANGED simVars

\* The dispatcher delivers a done-move update and no move is ever requested.
TrackerUpdate(value) ==
    /\ Len(delivered) < MaxTrackerUpdates
    /\ MoveChangedEntry(value)
    /\ UNCHANGED simVars

\* Line 155: if not self._started_moving
MoveChangedTest ==
    /\ cb_pc = "L155"
    /\ cb_tested' = ~_started_moving
    /\ cb_pc' = IF ~_started_moving THEN "L156" ELSE "L161"
    /\ UNCHANGED <<_moving, _started_moving, _position, user_setpoint, limits, linkVars,
                   cb_value, cb_timestamp, cb_was_moving, cb_started, cb_read,
                   cb_success, mvVars, status, req_done, delivered, events,
                   starts_since_move, n_moves, schedVars,
                   inputVars, simVars>>

\* Level-triggered start: the previous movingFlag is not consulted.
StartedValue_Level(was_moving, moving) == moving

\* Line 156: (not was_moving and self._moving)
StartedValue(was_moving, moving) == ~was_moving /\ moving

\* Line 156: started = self._started_moving = (not was_moving and self._moving)
MoveChangedSetStarted ==
    /\ cb_pc = "L156"
    /\ cb_started' = StartedValue(cb_was_moving, _moving)
    /\ _started_moving' = StartedValue(cb_was_moving, _moving)
    /\ cb_pc' = "L161"
    /\ UNCHANGED <<_moving, _position, user_setpoint, limits, linkVars,
                   cb_value, cb_timestamp, cb_was_moving, cb_tested, cb_read,
                   cb_success, mvVars, status, req_done, delivered, events,
                   starts_since_move, n_moves, schedVars,
                   inputVars, simVars>>

\* The start event: _run_subs(sub_type=SUB_START, timestamp, value)
StartEvent(timestamp, value) ==
    [type |-> "start", timestamp |-> timestamp, value |-> value]

\* Level-triggered completion: the previous movingFlag is not consulted.
IsCompletionEdge_Level(was_moving, moving) == ~moving

\* Line 165: if was_moving and not self._moving
IsCompletionEdge(was_moving, moving) == was_moving /\ ~moving

\* Lines 161-165: if started: run the start subscriptions; then the edge test.
\* Without a moving->not-moving edge the handler returns.
MoveChangedEmitStart ==
    /\ cb_pc = "L161"
    /\ events' = IF cb_started
                 THEN Append(events, StartEvent(cb_timestamp, cb_value))
                 ELSE events
    /\ starts_since_move' = IF cb_started THEN starts_since_move + 1
                                          ELSE starts_since_move
    /\ IF IsCompletionEdge(cb_was_moving, _moving)
       THEN /\ cb_pc' = "L166"
            /\ UNCHANGED <<cb_value, cb_timestamp, cb_was_moving, cb_tested,
                           cb_started, cb_read, cb_success>>
       ELSE CallbackReturns
    /\ UNCHANGED <<_moving, _started_moving, _position, user_setpoint, limits, linkVars,
                   mvVars, status, req_done, delivered, n_moves, schedVars,
                   inputVars, simVars>>

\* Either limit switch fails the move, whatever the direction of travel.
LimitSuccess_AnyLimit(dir, lls, hls) == ~(lls = 1 \/ hls = 1)

\* Lines 166-174: success from the direction of travel and the limit switches.
LimitSuccess(dir, lls, hls) ==
    IF dir = 0
    THEN (IF lls = 1 THEN FALSE ELSE TRUE)
    ELSE (IF hls = 1 THEN FALSE ELSE TRUE)

\* The alarm fails the move only when it is MAJOR or worse.
CompletionSuccess_MajorOnly(dir, lls, hls, severity) ==
    IF severity \in {"MAJOR", "INVALID"} THEN FALSE ELSE LimitSuccess(dir, lls, hls)

\* Lines 176-183: an alarm on the readback forces success = False.
CompletionSuccess(dir, lls, hls, severity) ==
    IF severity # "NO_ALARM" THEN FALSE ELSE LimitSuccess(dir, lls, hls)

\* Signal.get() of lines 168-176: with the device connected every signal
\* answers; with it disconnected, the signal that is unreachable may be one of
\* those the handler reads, and its get() raises.
SignalsReadable(conn) == IF conn THEN {TRUE} ELSE BOOLEAN

\* What a read of the four signals can return now.
CurrentSignals(sig) == IF sig = Untracked THEN AllSignalValues ELSE {sig}

\* Lines 166-183: the handler reads direction_of_travel, the limit switches and
\* the alarm severity of the readback as they are now, and computes success.
\* No try block surrounds the reads: when one raises, the exception leaves
\* the handler and line 185 is not reached.
MoveChangedReadSignals ==
    /\ cb_pc = "L166"
    /\ \E readable \in SignalsReadable(connected) :
          IF readable
          THEN /\ \E now \in CurrentSignals(signals) :
                     /\ cb_read' = now
                     /\ cb_success' = CompletionSuccess(now[1], now[2], now[3], now[4])
               /\ cb_pc' = "L185"
               /\ UNCHANGED <<cb_value, cb_timestamp, cb_was_moving, cb_tested,
                              cb_started, raised>>
          ELSE /\ raised' = TRUE
               /\ CallbackReturns
    /\ UNCHANGED <<_moving, _started_moving, _position, user_setpoint, limits,
                   connected, prop_read, readback, signals,
                   mvVars, status, req_done, delivered, events, starts_since_move, n_moves,
                   schedVars,
                   inputVars, simVars>>

\* The completion event: _done_moving(success=, timestamp=, value=)
DoneEvent(success, timestamp, value) ==
    [type |-> "done", timestamp |-> timestamp, value |-> value, success |-> success]

\* PositionerBase._done_moving runs the _SUB_REQ_DONE subscription: the status
\* registered by the last move is finished with success.
ResolveStatus(st, sub, success) ==
    IF sub # NoStatus /\ st[sub] = "pending"
    THEN [st EXCEPT ![sub] = IF success THEN "ok" ELSE "failed"]
    ELSE st

\* Line 185: self._done_moving(success=success, timestamp=timestamp, value=value)
MoveChangedDone ==
    /\ cb_pc = "L185"
    /\ events' = Append(events, DoneEvent(cb_success, cb_timestamp, cb_value))
    /\ status' = ResolveStatus(status, req_done, cb_success)
    /\ req_done' = NoStatus
    /\ CallbackReturns
    /\ UNCHANGED <<_moving, _started_moving, _position, user_setpoint, limits, linkVars,
                   mvVars, delivered, starts_since_move, n_moves, schedVars,
                   inputVars, simVars>>

\* The handler stores the readback only while the axis is moving.
SetPosition_WhileMoving(position, moving, value) ==
    IF moving THEN value ELSE position

\* Line 146: self._set_position(value)
SetPosition(position, moving, value) == value

\* Lines 144-146: _pos_changed, run for a user_readback update. It shares no
\* state with _move_changed and move, and is not among the steps of MotorNext.
PosChanged(value) ==
    /\ readback # value
    /\ readback' = value
    /\ _position' = SetPosition(_position, _moving, value)
    /\ UNCHANGED <<_moving, _started_moving, user_setpoint, limits,
                   connected, prop_read, raised, signals,
                   cbVars, mvVars, status, req_done, delivered, events, starts_since_move,
                   n_moves, schedVars,
                   inputVars, simVars>>

\* ------------------------------------------------------------- move
\* The setpoint built without limits=True: nothing is rejected.
CheckValue_NoLimits(position, lim) == TRUE

\* OMMotor.check_value -> user_setpoint.check_value (limits=True): the position
\* is rejected when it lies outside the limits, which apply when low < high.
CheckValue(position, lim) ==
    lim[1] >= lim[2] \/ (lim[1] <= position /\ position <= lim[2])

\* The decorator lets the call through whatever the connection.
RaiseIfDisconnected_Never(conn) == FALSE

\* raise_if_disconnected (imported at line 7; lines 59, 65, 70, 79, 121): the decorated
\* method raises DisconnectedError unless self.connected.
RaiseIfDisconnected(conn) == ~conn

\* Lines 79 and 106: move called; the decorator raises DisconnectedError
\* without running the body, else self._started_moving = False.
MoveBegin(position, wait) ==
    /\ mv_pc = "idle"
    /\ n_moves < MaxMoves
    /\ n_moves' = n_moves + 1
    /\ mv_position' = position
    /\ mv_wait' = wait
    /\ mv_status' = NoStatus
    /\ mv_wrote' = FALSE
    /\ mv_stops' = 0
    /\ IF RaiseIfDisconnected(connected)
       THEN /\ mv_result' = "DisconnectedError"
            /\ mv_pc' = "idle"
            /\ UNCHANGED <<_started_moving, starts_since_move>>
       ELSE /\ mv_result' = "none"
            /\ mv_pc' = "L108"
            /\ _started_moving' = FALSE
            /\ starts_since_move' = 0
    /\ UNCHANGED <<_moving, _position, user_setpoint, limits, linkVars, cbVars,
                   status, req_done, delivered, events, schedVars,
                   inputVars, simVars>>

\* Line 108: status = super().move(position, **kwargs). PositionerBase.move
\* validates the position (ValueError), fails the status of the move it
\* replaces and registers a new status for the completion.
MoveSuper ==
    /\ mv_pc = "L108"
    /\ IF CheckValue(mv_position, limits)
       THEN /\ status' = [ResolveStatus(status, req_done, FALSE)
                             EXCEPT ![n_moves] = "pending"]
            /\ req_done' = n_moves
            /\ mv_status' = n_moves
            /\ mv_pc' = "L109"
            /\ UNCHANGED mv_result
       ELSE /\ mv_result' = "ValueError"
            /\ mv_pc' = "idle"
            /\ UNCHANGED <<status, req_done, mv_status>>
    /\ UNCHANGED <<_moving, _started_moving, _position, user_setpoint, limits, linkVars,
                   cbVars, mv_position, mv_wait, mv_wrote, mv_stops, delivered,
                   events, starts_since_move, n_moves, schedVars,
                   inputVars, simVars>>

\* Lines 109-112 and 118: self.user_setpoint.put(position, wait=False), then
\* try: if wait: ... ; without wait, return status.
MovePut ==
    /\ mv_pc = "L109"
    /\ user_setpoint' = mv_position
    /\ mv_wrote' = TRUE
    /\ IF mv_wait
       THEN mv_pc' = "L113" /\ UNCHANGED mv_result
       ELSE mv_pc' = "idle" /\ mv_result' = "returned"
    /\ UNCHANGED <<_moving, _started_moving, _position, limits, linkVars, cbVars,
                   mv_position, mv_wait, mv_status, mv_stops, status, req_done,
                   delivered, events, starts_since_move, n_moves, schedVars,
                   inputVars, simVars>>

\* Line 113: status_wait(status). The module neither imports nor defines
\* status_wait (lines 3-10), so evaluating the name raises NameError, which
\* the except clause of line 114 does not catch.
MoveWait ==
    /\ mv_pc = "L113"
    /\ mv_result' = "NameError"
    /\ mv_pc' = "idle"
    /\ UNCHANGED <<_moving, _started_moving, _position, user_setpoint, limits, linkVars,
                   cbVars, mv_position, mv_wait, mv_status, mv_wrote, mv_stops,
                   status, req_done, delivered, events, starts_since_move, n_moves,
                   schedVars,
                   inputVars, simVars>>

\* Line 114: a KeyboardInterrupt delivered to the caller inside the try block
\* is caught.
MoveInterrupt ==
    /\ mv_pc = "L113"
    /\ mv_pc' = "L115"
    /\ UNCHANGED <<_moving, _started_moving, _position, user_setpoint, limits, linkVars,
                   cbVars, mv_position, mv_wait, mv_status, mv_result, mv_wrote,
                   mv_stops, status, req_done, delivered, events,
                   starts_since_move, n_moves, schedVars,
                   inputVars, simVars>>

\* The handler re-raises without stopping the axis.
MoveStop_Skipped ==
    /\ mv_pc = "L115"
    /\ mv_pc' = "L116"
    /\ UNCHANGED <<_moving, _started_moving, _position, user_setpoint, limits, linkVars,
                   cbVars, mv_position, mv_wait, mv_status, mv_result, mv_wrote,
                   mv_stops, status, req_done, delivered, events,
                   starts_since_move, n_moves, schedVars,
                   inputVars, simVars>>

\* Line 115: self.stop()
MoveStop ==
    /\ mv_pc = "L115"
    /\ mv_stops' = mv_stops + 1
    /\ mv_pc' = "L116"
    /\ UNCHANGED <<_moving, _started_moving, _position, user_setpoint, limits, linkVars,
                   cbVars, mv_position, mv_wait, mv_status, mv_result, mv_wrote,
                   status, req_done, delivered, events, starts_since_move, n_moves,
                   schedVars,
                   inputVars, simVars>>

\* Line 116: raise
MoveReraise ==
    /\ mv_pc = "L116"
    /\ mv_result' = "KeyboardInterrupt"
    /\ mv_pc' = "idle"
    /\ UNCHANGED <<_moving, _started_moving, _position, user_setpoint, limits, linkVars,
                   cbVars, mv_position, mv_wait, mv_status, mv_wrote, mv_stops,
                   status, req_done, delivered, events, starts_since_move, n_moves,
                   schedVars,
                   inputVars, simVars>>

\* ------------------------------------------------------------- OMMotor
MotorNext ==
    \/ \E v \in DoneMoveValues : MoveChangedBegin(v)
    \/ MoveChangedTest
    \/ MoveChangedSetStarted
    \/ MoveChangedEmitStart
    \/ MoveChangedReadSignals
    \/ MoveChangedDone
    \/ \E p \in Positions, w \in Waits : MoveBegin(p, w)
    \/ MoveSuper
    \/ MovePut
    \/ MoveWait
    \/ MoveInterrupt
    \/ MoveStop
    \/ MoveReraise

Spec == Init /\ [][MotorNext]_vars

\* ------------------------------------------------------------- connection
\* A signal of the device becomes unreachable, or all are reachable again
\* (Device.connected is true when every signal is connected).
ConnectionChanged ==
    /\ connected' = ~connected
    /\ UNCHANGED <<_moving, _started_moving, _position, user_setpoint, limits,
                   prop_read, readback, raised, signals, cbVars, mvVars, status, req_done,
                   delivered, events, starts_since_move, n_moves, schedVars,
                   inputVars, simVars>>

\* Lines 187-195: report. super().report reads self.position, which raises
\* DisconnectedError when disconnected; the except clause of line 191 replaces
\* the report by {'position': 'disconnected'}, line 194 adds the pv name and
\* line 195 returns it.
Report(conn) ==
    IF RaiseIfDisconnected(conn)
    THEN [raised |-> "none", value |-> "disconnected"]
    ELSE [raised |-> "none", value |-> "live"]

\* Lines 58-77 and 120-128: precision, limits, moving and position are
\* decorated with raise_if_disconnected and return the live value otherwise.
PropertyOutcome(property, conn) ==
    IF property = "report"
    THEN Report(conn)
    ELSE IF RaiseIfDisconnected(conn)
         THEN [raised |-> "DisconnectedError", value |-> "none"]
         ELSE [raised |-> "none", value |-> "live"]

\* The device also subscribes to the alarm: an alarm that appears is reported
\* at once as a failed completion.
SignalChanged_Subscribed(now) ==
    /\ signals # now
    /\ signals' = now
    /\ events' = IF now[4] # "NO_ALARM"
                 THEN Append(events, [type |-> "done", timestamp |-> Len(delivered),
                                      value |-> 1, success |-> FALSE])
                 ELSE events
    /\ UNCHANGED <<_moving, _started_moving, _position, user_setpoint, limits,
                   connected, prop_read, readback, raised, cbVars, mvVars, status,
                   req_done, delivered, starts_since_move, n_moves,
                   schedVars, inputVars, simVars>>

\* Lines 38-56: a limit switch, the direction of travel or the alarm severity
\* changes. __init__ subscribes to motor_done_move and user_readback only, so
\* no handler of the device runs.
SignalChanged(now) ==
    /\ signals # now
    /\ signals' = now
    /\ UNCHANGED <<_moving, _started_moving, _position, user_setpoint, limits,
                   connected, prop_read, readback, raised, cbVars, mvVars, status,
                   req_done, delivered, events, starts_since_move, n_moves,
                   schedVars, inputVars, simVars>>

\* A caller reads one of the properties.
ReadProperty(property) ==
    /\ prop_read' = [property |-> property,
                     raised |-> PropertyOutcome(property, connected).raised,
                     value |-> PropertyOutcome(property, connected).value]
    /\ UNCHANGED <<_moving, _started_moving, _position, user_setpoint, limits,
                   connected, readback, raised, signals, cbVars, mvVars, status, req_done,
                   delivered, events, starts_since_move, n_moves, schedVars,
                   inputVars, simVars>>

LinkNext ==
    \/ ConnectionChanged
    \/ \E property \in Properties : ReadProperty(property)
    \/ \E p \in Positions, w \in Waits : MoveBegin(p, w)
    \/ MoveSuper
    \/ MovePut
    \/ MoveWait
    \/ MoveInterrupt
    \/ MoveStop
    \/ MoveReraise

LinkSpec == Init /\ [][LinkNext]_vars

TrackerNext ==
    \/ \E v \in DoneMoveValues : TrackerUpdate(v)
    \/ MoveChangedTest
    \/ MoveChangedSetStarted
    \/ MoveChangedEmitStart
    \/ MoveChangedReadSignals
    \/ MoveChangedDone
    \/ \E p \in Positions : PosChanged(p)
    \/ ConnectionChanged

TrackerSpec == Init /\ [][TrackerNext]_vars

SignalNext ==
    \/ \E v \in DoneMoveValues : TrackerUpdate(v)
    \/ MoveChangedTest
    \/ MoveChangedSetStarted
    \/ MoveChangedEmitStart
    \/ MoveChangedReadSignals
    \/ MoveChangedDone
    \/ \E now \in AllSignalValues : SignalChanged(now)

SignalSpec == Init /\ [][SignalNext]_vars

\* Longer runs of done-move updates, with move requests that do not wait.
MotionNext ==
    \/ \E v \in DoneMoveValues : TrackerUpdate(v)
    \/ MoveChangedTest
    \/ MoveChangedSetStarted
    \/ MoveChangedEmitStart
    \/ MoveChangedReadSignals
    \/ MoveChangedDone
    \/ \E p \in Positions : MoveBegin(p, FALSE)
    \/ MoveSuper
    \/ MovePut

MotionSpec == Init /\ [][MotionNext]_vars

\* ------------------------------------------------------------- sim.OMMotor
\* FakeSignal.put(value): the signal holds the value put, and the handlers
\* subscribed to it are called with it before put returns.
FakeSignalPut(value) == value

\* sim/mirror.py lines 28-60: the simulated motor is built. Its limit switches
\* hold 10000 and -10000; it inherits the handlers and their subscriptions.
SimConstruct ==
    /\ sim_pc = "unbuilt"
    /\ sim_pc' = "idle"
    /\ \E dir \in Directions, severity \in Severities :
          signals' = <<dir, -10000, 10000, severity>>
    /\ UNCHANGED <<_moving, _started_moving, _position, user_setpoint, limits,
                   connected, prop_read, readback, raised, cbVars, mvVars, status,
                   req_done, delivered, events, starts_since_move, n_moves,
                   schedVars, inputVars, sim_position, motor_is_moving,
                   motor_done_move, sim_returned, n_sim_moves>>

\* sim/mirror.py line 76: self.user_setpoint.put(position). The method
\* overrides mirror.OMMotor.move and does not call it.
SimMoveBegin(position) ==
    /\ sim_pc = "idle"
    /\ n_sim_moves < MaxSimMoves
    /\ n_sim_moves' = n_sim_moves + 1
    /\ sim_position' = position
    /\ sim_returned' = FALSE
    /\ user_setpoint' = FakeSignalPut(position)
    /\ sim_pc' = "L79"
    /\ UNCHANGED <<_moving, _started_moving, _position, limits, linkVars, cbVars,
                   mvVars, status, req_done, delivered, events, starts_since_move,
                   n_moves, schedVars, inputVars, motor_is_moving, motor_done_move>>

\* sim/mirror.py lines 79 and 84: self.motor_is_moving.put(1), and put(0).
SimPutIsMoving ==
    /\ sim_pc \in {"L79", "L84"}
    /\ cb_pc = "idle"
    /\ motor_is_moving' = FakeSignalPut(IF sim_pc = "L79" THEN 1 ELSE 0)
    /\ sim_pc' = IF sim_pc = "L79" THEN "L80" ELSE "L85"
    /\ UNCHANGED <<_moving, _started_moving, _position, user_setpoint, limits,
                   linkVars, cbVars, mvVars, status, req_done, delivered, events,
                   starts_since_move, n_moves, schedVars, inputVars, sim_position,
                   motor_done_move, sim_returned, n_sim_moves>>

\* sim/mirror.py lines 80 and 85: self.motor_done_move.put(0), and put(1):
\* _move_changed is entered with the value put.
SimPutDoneMove ==
    /\ sim_pc \in {"L80", "L85"}
    /\ motor_done_move' = FakeSignalPut(IF sim_pc = "L80" THEN 0 ELSE 1)
    /\ MoveChangedEntry(FakeSignalPut(IF sim_pc = "L80" THEN 0 ELSE 1))
    /\ sim_pc' = IF sim_pc = "L80" THEN "L81" ELSE "L86"
    /\ UNCHANGED <<sim_position, motor_is_moving, sim_returned, n_sim_moves>>

\* sim/mirror.py line 81: status = self.user_readback.set(position), once
\* _move_changed has returned; _pos_changed is called with the position.
SimSetReadback ==
    /\ sim_pc = "L81"
    /\ cb_pc = "idle"
    /\ readback' = FakeSignalPut(sim_position)
    /\ _position' = SetPosition(_position, _moving, FakeSignalPut(sim_position))
    /\ sim_pc' = "L84"
    /\ UNCHANGED <<_moving, _started_moving, user_setpoint, limits, connected,
                   prop_read, raised, signals, cbVars, mvVars, status, req_done,
                   delivered, events, starts_since_move, n_moves, schedVars,
                   inputVars, sim_position, motor_is_moving, motor_done_move,
                   sim_returned, n_sim_moves>>

\* sim/mirror.py lines 86-87: time.sleep(0.1); return status, once
\* _move_changed has returned.
SimMoveReturn ==
    /\ sim_pc = "L86"
    /\ cb_pc = "idle"
    /\ sim_returned' = TRUE
    /\ sim_pc' = "idle"
    /\ UNCHANGED <<motorVars, schedVars, inputVars, sim_position,
                   motor_is_moving, motor_done_move, n_sim_moves>>

SimNext ==
    \/ SimConstruct
    \/ \E p \in Positions : SimMoveBegin(p)
    \/ SimPutIsMoving
    \/ SimPutDoneMove
    \/ SimSetReadback
    \/ SimMoveReturn
    \/ MoveChangedTest
    \/ MoveChangedSetStarted
    \/ MoveChangedEmitStart
    \/ MoveChangedReadSignals
    \/ MoveChangedDone

SimSpec == Init /\ [][SimNext]_vars

\* ------------------------------------------------------------- schedule_task
NoThread == "None"

\* The caller is compared with no dispatcher thread.
MatchedThread_Never(current_thread) == NoThread

\* Lines 180-186: the name of the dispatcher thread that is the current
\* thread, None when the current thread is none of them.
MatchedThread(current_thread) ==
    IF \E name \in Workers : name = current_thread
    THEN CHOOSE name \in Workers : name = current_thread
    ELSE NoThread

\* Lines 188-194, schedule(): the utility queue without a matched thread, the
\* matched thread's own queue otherwise.
TargetQueue_AlwaysUtility(matched_thread) == Utility

TargetQueue(matched_thread) ==
    IF matched_thread = NoThread THEN Utility ELSE matched_thread

\* schedule() is a closure over matched_thread: the thread that runs it (the
\* caller, or the timer's thread) plays no part.
ScheduleTarget_FireTime(matched_thread, running_thread) ==
    TargetQueue(MatchedThread(running_thread))

ScheduleTarget(matched_thread, running_thread) ==
    TargetQueue(matched_thread)

Enqueue(q, task) == [queue EXCEPT ![q] = Append(@, task)]

\* Lines 163-202: schedule_task(func, args, kwargs, delay) called on thread
\* caller. Without a delay schedule() runs at once on the caller's thread; with
\* a delay a threading.Timer is started that will run it.
ScheduleTask(caller, delayed) ==
    /\ Len(calls) < MaxTasks
    /\ LET task == Len(calls) + 1
           matched_thread == MatchedThread(caller)
       IN /\ calls' = Append(calls, [caller |-> caller, delayed |-> delayed])
          /\ IF delayed
             THEN /\ timers' = timers \cup
                                 {[task |-> task, matched_thread |-> matched_thread]}
                  /\ UNCHANGED queue
             ELSE /\ queue' = Enqueue(ScheduleTarget(matched_thread, caller), task)
                  /\ UNCHANGED timers
    /\ UNCHANGED <<ran, motorVars, inputVars, simVars>>

\* A periodic timer: it stays armed after it has run schedule().
TimerFires_Repeating(timer) ==
    /\ timer \in timers
    /\ Len(queue[ScheduleTarget(timer.matched_thread, TimerThread)]) < MaxTasks
    /\ queue' = Enqueue(ScheduleTarget(timer.matched_thread, TimerThread), timer.task)
    /\ UNCHANGED <<timers, calls, ran, motorVars, inputVars, simVars>>

\* Lines 188-194 run by the timer's thread once the delay has passed; a
\* threading.Timer runs its function once.
TimerFires(timer) ==
    /\ timer \in timers
    /\ timers' = timers \ {timer}
    /\ queue' = Enqueue(ScheduleTarget(timer.matched_thread, TimerThread), timer.task)
    /\ UNCHANGED <<calls, ran, motorVars, inputVars, simVars>>

\* The worker of queue q takes its next task and runs it.
RunTask(q) ==
    /\ queue[q] # <<>>
    /\ queue' = [queue EXCEPT ![q] = Tail(@)]
    /\ ran' = [ran EXCEPT ![q] = Append(@, Head(queue[q]))]
    /\ UNCHANGED <<timers, calls, motorVars, inputVars, simVars>>

SchedNext ==
    \/ \E caller \in Callers, delayed \in BOOLEAN : ScheduleTask(caller, delayed)
    \/ \E timer \in timers : TimerFires(timer)
    \/ \E q \in Queues : RunTask(q)

SchedSpec == Init /\ [][SchedNext]_vars

\* ------------------------------------------------------------- get_input
\* The first n characters of a sequence and what follows them.
Take(seq, n) == SubSeq(seq, 1, n)
Drop(seq, n) == SubSeq(seq, n + 1, Len(seq))

\* The user types a character; it waits on stdin until it is read.
TypeChar(c) ==
    /\ n_typed < MaxTyped
    /\ n_typed' = n_typed + 1
    /\ stdin' = Append(stdin, c)
    /\ UNCHANGED <<term, gi_pc, old_settings, inp, extra_inp, gi_interrupted,
                   gi_result, gi_returned, n_calls, motorVars, schedVars, simVars>>

\* Between calls the terminal is put in another mode by its user.
TerminalModeSet(mode) ==
    /\ gi_pc = "idle"
    /\ term # mode
    /\ term' = mode
    /\ UNCHANGED <<stdin, gi_pc, old_settings, inp, extra_inp, gi_interrupted,
                   gi_result, gi_returned, n_typed, n_calls, motorVars, schedVars, simVars>>

\* Lines 61-67: without termios RuntimeError is raised before anything is
\* saved; else old_settings = termios.tcgetattr(sys.stdin); inp = None
GetInputBegin ==
    /\ gi_pc = "idle"
    /\ n_calls < MaxCalls
    /\ n_calls' = n_calls + 1
    /\ gi_interrupted' = FALSE
    /\ gi_returned' = NoInput
    /\ inp' = NoInput
    /\ extra_inp' = <<>>
    /\ \E supported \in BOOLEAN :
          IF supported
          THEN /\ old_settings' = term
               /\ gi_result' = "none"
               /\ gi_pc' = "L70"
          ELSE /\ gi_result' = "RuntimeError"
               /\ gi_pc' = "idle"
               /\ UNCHANGED old_settings
    /\ UNCHANGED <<term, stdin, n_typed, motorVars, schedVars, simVars>>

\* Line 70: tty.setcbreak(sys.stdin.fileno())
SetCbreak ==
    /\ gi_pc = "L70"
    /\ term' = "cbreak"
    /\ gi_pc' = "L72"
    /\ UNCHANGED <<stdin, old_settings, inp, extra_inp, gi_interrupted,
                   gi_result, gi_returned, n_typed, n_calls, motorVars, schedVars, simVars>>

\* Lines 72-73: while (not is_input()): time.sleep(0.01). The loop is left
\* once a character waits on stdin.
PollInput ==
    /\ gi_pc = "L72"
    /\ stdin # <<>>
    /\ gi_pc' = "L75"
    /\ UNCHANGED <<term, stdin, old_settings, inp, extra_inp, gi_interrupted,
                   gi_result, gi_returned, n_typed, n_calls, motorVars, schedVars, simVars>>

\* Line 75: inp = sys.stdin.read(1); line 77: if inp == '\x1b'
ReadFirst ==
    /\ gi_pc = "L75"
    /\ Len(stdin) >= 1
    /\ inp' = Take(stdin, 1)
    /\ stdin' = Drop(stdin, 1)
    /\ gi_pc' = IF Take(stdin, 1) = <<"ESC">> THEN "L78" ELSE "L85"
    /\ UNCHANGED <<term, old_settings, extra_inp, gi_interrupted, gi_result,
                   gi_returned, n_typed, n_calls, motorVars, schedVars, simVars>>

\* Lines 78-81: extra_inp = sys.stdin.read(2); inp += extra_inp;
\* if extra_inp == '[1'. The read blocks until two characters have come.
ReadExtra ==
    /\ gi_pc = "L78"
    /\ Len(stdin) >= 2
    /\ extra_inp' = Take(stdin, 2)
    /\ inp' = inp \o Take(stdin, 2)
    /\ stdin' = Drop(stdin, 2)
    /\ gi_pc' = IF Take(stdin, 2) = <<"[", "1">> THEN "L82" ELSE "L85"
    /\ UNCHANGED <<term, old_settings, gi_interrupted, gi_result, gi_returned,
                   n_typed, n_calls, motorVars, schedVars, simVars>>

\* Line 82: inp += sys.stdin.read(3)
ReadModifier ==
    /\ gi_pc = "L82"
    /\ Len(stdin) >= 3
    /\ inp' = inp \o Take(stdin, 3)
    /\ stdin' = Drop(stdin, 3)
    /\ gi_pc' = "L85"
    /\ UNCHANGED <<term, old_settings, extra_inp, gi_interrupted, gi_result,
                   gi_returned, n_typed, n_calls, motorVars, schedVars, simVars>>

\* Without the finally clause the interruption leaves get_input at once.
Interrupted_NoFinally ==
    /\ gi_pc \in {"L72", "L75", "L78", "L82"}
    /\ gi_interrupted' = TRUE
    /\ gi_result' = "KeyboardInterrupt"
    /\ gi_pc' = "idle"
    /\ UNCHANGED <<term, stdin, old_settings, inp, extra_inp, gi_returned,
                   n_typed, n_calls, motorVars, schedVars, simVars>>

\* Lines 68 and 83: ctrl+c while polling or while a read blocks raises
\* KeyboardInterrupt inside the try block; the finally clause runs next.
Interrupted ==
    /\ gi_pc \in {"L72", "L75", "L78", "L82"}
    /\ gi_interrupted' = TRUE
    /\ gi_pc' = "L85"
    /\ UNCHANGED <<term, stdin, old_settings, inp, extra_inp, gi_result,
                   gi_returned, n_typed, n_calls, motorVars, schedVars, simVars>>

\* Line 85: termios.tcsetattr(sys.stdin, termios.TCSADRAIN, old_settings)
RestoreSettings ==
    /\ gi_pc = "L85"
    /\ term' = old_settings
    /\ gi_pc' = "L86"
    /\ UNCHANGED <<stdin, old_settings, inp, extra_inp, gi_interrupted,
                   gi_result, gi_returned, n_typed, n_calls, motorVars, schedVars, simVars>>

\* Line 86: return inp, inside the finally clause: a pending KeyboardInterrupt
\* is dropped and the caller gets None.
GetInputReturn ==
    /\ gi_pc = "L86"
    /\ gi_result' = "returned"
    /\ gi_returned' = inp
    /\ gi_pc' = "idle"
    /\ UNCHANGED <<term, stdin, old_settings, inp, extra_inp, gi_interrupted,
                   n_typed, n_calls, motorVars, schedVars, simVars>>

InputNext ==
    \/ \E c \in Chars : TypeChar(c)
    \/ \E mode \in TerminalModes : TerminalModeSet(mode)
    \/ GetInputBegin
    \/ SetCbreak
    \/ PollInput
    \/ ReadFirst
    \/ ReadExtra
    \/ ReadModifier
    \/ Interrupted
    \/ RestoreSettings
    \/ GetInputReturn

InputSpec == Init /\ [][InputNext]_vars

\* ------------------------------------------------------------- properties
IsStart(e) == e.type = "start"
IsDone(e) == e.type = "done"
StartEvents == SelectSeq(events, IsStart)
DoneEvents == SelectSeq(events, IsDone)
EventsAt(kind, i) == {k \in DOMAIN events : events[k].type = kind /\ events[k].timestamp = i}

\* The done-move values as delivered: update i goes not-moving->moving when the
\* value before it was 1 (or it is the first) and its value is not 1, and
\* moving->not-moving when the value before it was not 1 and its value is 1.
MovingBefore(i) == i > 1 /\ delivered[i - 1] # 1
UpEdge(i) == ~MovingBefore(i) /\ delivered[i] # 1
DownEdge(i) == MovingBefore(i) /\ delivered[i] = 1
UpEdges == {i \in DOMAIN delivered : UpEdge(i)}
DownEdges == {i \in DOMAIN delivered : DownEdge(i)}

StartEmitted ==
    /\ Len(events') = Len(events) + 1
    /\ events'[Len(events')].type = "start"

\* C1 (as stated): once the handler has returned, every update that went
\* not-moving->moving has emitted exactly one start event, and no other update
\* has emitted one.
C1_StartPerEdge ==
    cb_pc = "idle" =>
        \A i \in DOMAIN delivered :
            Cardinality(EventsAt("start", i)) = IF UpEdge(i) THEN 1 ELSE 0

\* C1 (amended): a step emits a start event exactly when it is the handler's
\* emission step for an update whose previous movingFlag was false, whose value
\* is not 1 and that found startedFlag false when it tested it; the event
\* carries that update's timestamp and value. A not-moving->moving update that
\* finds startedFlag still true (a start was emitted and no move request has
\* reset the flag since) emits none.
C1_StartWhenUnstarted ==
    [][ /\ StartEmitted <=>
              (cb_pc = "L161" /\ cb_pc' # "L161" /\ cb_tested
                 /\ ~cb_was_moving /\ cb_value # 1)
        /\ StartEmitted =>
              events' = Append(events, [type |-> "start",
                                        timestamp |-> Len(delivered),
                                        value |-> delivered[Len(delivered)]])
      ]_vars

\* Two not-moving->moving runs were delivered with no move request, and only
\* the first emitted a start event.
C1_Witness ==
    /\ cb_pc = "idle"
    /\ n_moves = 0
    /\ Cardinality(UpEdges) = 2
    /\ Len(StartEvents) = 1

C3_OneStartPerMove == starts_since_move <= 1

\* What the claims say of the completion success when there is no alarm.
ClaimedLimitSuccess(dir, lls, hls) ==
    ~((dir = 0 /\ lls = 1) \/ (dir = 1 /\ hls = 1))

CompletionEmitted == cb_pc = "L185" /\ cb_pc' = "idle"
LastEvent(evs) == evs[Len(evs)]

\* C4: a completion emitted with no alarm has success false when the direction
\* of travel is 0 and the low limit switch is 1, or the direction is 1 and the
\* high limit switch is 1, and success true in every other case.
C4_LimitSwitchOutcome ==
    [][ (CompletionEmitted /\ cb_read[4] = "NO_ALARM") =>
           /\ Len(events') = Len(events) + 1
           /\ LastEvent(events').type = "done"
           /\ LastEvent(events').success =
                 ClaimedLimitSuccess(cb_read[1], cb_read[2], cb_read[3])
      ]_vars

\* Direction of travel 1 with only the low limit switch active: success.
C4_Witness ==
    /\ cb_pc = "L185"
    /\ cb_read = <<1, 1, 0, "NO_ALARM">>
    /\ cb_success

\* C5: a completion emitted while the readback's alarm severity is not
\* NO_ALARM has success false, whatever the direction and the limit switches.
C5_AlarmFails ==
    [][ (CompletionEmitted /\ cb_read[4] # "NO_ALARM") =>
           /\ Len(events') = Len(events) + 1
           /\ LastEvent(events').type = "done"
           /\ LastEvent(events').success = FALSE
      ]_vars

\* A minor alarm with no limit switch active: failure.
C5_Witness ==
    /\ cb_pc = "L185"
    /\ cb_read[2] = 0
    /\ cb_read[3] = 0
    /\ cb_read[4] = "MINOR"
    /\ ~cb_success

\* The position lies outside the limits of the setpoint.
OutsideLimits(position) ==
    limits[1] < limits[2] /\ (position < limits[1] \/ position > limits[2])

\* C6: a move whose target lies outside the limits never gets past the
\* validation: it ends with ValueError, raised to the caller by move itself,
\* and it has not written the setpoint.
C6_InvalidRejectedBeforeWrite ==
    (n_moves > 0 /\ mv_pc # "idle" /\ OutsideLimits(mv_position) => mv_pc = "L108")
    /\ (n_moves > 0 /\ mv_pc = "idle" /\ OutsideLimits(mv_position) =>
           mv_result = "ValueError" /\ ~mv_wrote /\ user_setpoint # mv_position)

C6_Witness ==
    /\ mv_pc = "idle"
    /\ OutsideLimits(mv_position)
    /\ mv_result = "ValueError"

C8_WaitReturnsResolved ==
    (/\ n_moves > 0
     /\ mv_pc = "idle"
     /\ mv_wait
     /\ ~OutsideLimits(mv_position)
     /\ mv_stops = 0
     /\ \A k \in DOMAIN DoneEvents : DoneEvents[k].success)
    => (/\ mv_result = "returned"
        /\ mv_status # NoStatus
        /\ status[mv_status] = "ok")

\* How often a task sits in a queue or has been run by that queue's worker.
Occurrences(seq, task) == Cardinality({i \in DOMAIN seq : seq[i] = task})
PlacedOn(q, task) == Occurrences(queue[q] \o ran[q], task)

\* The queue the claims name for a thread: the worker's own, else the utility.
ClaimedQueue(thread) == IF thread \in Workers THEN thread ELSE Utility

\* C9: a task scheduled with no delay is on the caller's own queue, once,
\* when the caller is a named worker, and on the utility queue, once,
\* otherwise; it is on no other queue.
C9_ImmediateQueue ==
    \A task \in DOMAIN calls :
        ~calls[task].delayed =>
            \A q \in Queues :
                PlacedOn(q, task) = IF q = ClaimedQueue(calls[task].caller) THEN 1 ELSE 0

C9_Witness ==
    \E t1, t2 \in DOMAIN calls :
        /\ ~calls[t1].delayed /\ calls[t1].caller = "A" /\ PlacedOn("A", t1) = 1
        /\ ~calls[t2].delayed /\ calls[t2].caller = "ext" /\ PlacedOn(Utility, t2) = 1

\* C10 (as stated): the queue of a delayed task is chosen from the thread
\* running when the timer fires, which is the timer's own thread.
C10_ChosenAtFireTime ==
    \A task \in DOMAIN calls :
        calls[task].delayed =>
            \A q \in Queues :
                PlacedOn(q, task) > 0 => q = ClaimedQueue(TimerThread)

\* C10 (amended): the queue of a delayed task is chosen from the thread that
\* called schedule_task; the thread on which the timer fires plays no part.
C10_ChosenAtCallTime ==
    \A task \in DOMAIN calls :
        calls[task].delayed =>
            \A q \in Queues :
                PlacedOn(q, task) > 0 => q = ClaimedQueue(calls[task].caller)

\* A delayed task scheduled from worker A has been put on A's queue by the timer.
C10_Witness ==
    \E task \in DOMAIN calls :
        /\ calls[task].delayed
        /\ calls[task].caller = "A"
        /\ PlacedOn("A", task) = 1
        /\ \A timer \in timers : timer.task # task

\* The pending timers of a task.
PendingTimers(task) == {timer \in timers : timer.task = task}

\* C11: the target of a delayed task is resolved when schedule_task is called:
\* while its timer is pending the timer holds the caller's worker, or no
\* worker for a caller that is none, and once the timer has fired the task is
\* on the caller's own queue for a worker and on the utility queue otherwise.
C11_ResolvedAtScheduleTime ==
    \A task \in DOMAIN calls :
        calls[task].delayed =>
            /\ \A timer \in PendingTimers(task) :
                   timer.matched_thread =
                      IF calls[task].caller \in Workers THEN calls[task].caller
                                                        ELSE NoThread
            /\ PendingTimers(task) = {} =>
                   PlacedOn(ClaimedQueue(calls[task].caller), task) = 1

\* Two timers have fired: the task delayed from worker A is on A's queue, the
\* task delayed from the external thread is on the utility queue.
C11_Witness ==
    \E t1, t2 \in DOMAIN calls :
        /\ calls[t1].delayed /\ calls[t1].caller = "A"
        /\ calls[t2].delayed /\ calls[t2].caller = "ext"
        /\ PendingTimers(t1) = {} /\ PendingTimers(t2) = {}
        /\ PlacedOn("A", t1) = 1
        /\ PlacedOn(Utility, t2) = 1

\* Where a task waits or has run: the pairs of a queue and a place in it.
Placements(task) ==
    UNION {{<<q, i>> : i \in {j \in DOMAIN (queue[q] \o ran[q]) :
                                  (queue[q] \o ran[q])[j] = task}} : q \in Queues}
Executions(task) ==
    UNION {{<<q, i>> : i \in {j \in DOMAIN ran[q] : ran[q][j] = task}} : q \in Queues}

\* C12: every schedule_task call puts its task on at most one queue, at most
\* once, so the task runs at most once; a task scheduled with no delay is
\* placed at once, a delayed one is placed exactly when its one timer is no
\* longer pending, and no timer is left armed after it has fired.
C12_AtMostOnce ==
    \A task \in DOMAIN calls :
        /\ Cardinality(Placements(task)) <= 1
        /\ Cardinality(Executions(task)) <= 1
        /\ Cardinality(PendingTimers(task)) <= 1
        /\ Cardinality(Placements(task)) + Cardinality(PendingTimers(task)) = 1
        /\ ~calls[task].delayed => PendingTimers(task) = {}

\* A delayed task and an immediate one have both been run, once each.
C12_Witness ==
    \E t1, t2 \in DOMAIN calls :
        /\ calls[t1].delayed /\ ~calls[t2].delayed
        /\ Cardinality(Executions(t1)) = 1
        /\ Cardinality(Executions(t2)) = 1
        /\ PendingTimers(t1) = {}

\* A property is read, or move is called, while the device is disconnected.
ReadDisconnected == prop_read' # prop_read /\ ~connected
MoveDisconnected == n_moves' # n_moves /\ ~connected

\* C13 (as stated): while the device is disconnected every read of precision,
\* limits, moving, position and report, and every call of move, raises
\* DisconnectedError and returns nothing.
C13_AllRaiseDisconnected ==
    [][ /\ ReadDisconnected =>
              prop_read'.raised = "DisconnectedError" /\ prop_read'.value = "none"
        /\ MoveDisconnected => mv_result' = "DisconnectedError"
      ]_vars

\* C13 (amended): while the device is disconnected every read of precision,
\* limits, moving and position raises DisconnectedError and returns nothing,
\* and every call of move raises DisconnectedError before it has touched the
\* started flag, a status or the setpoint; a read of report raises nothing and
\* returns a report whose position is 'disconnected'.
C13_DisconnectedOutcome ==
    [][ /\ (ReadDisconnected /\ prop_read'.property # "report") =>
              prop_read'.raised = "DisconnectedError" /\ prop_read'.value = "none"
        /\ (ReadDisconnected /\ prop_read'.property = "report") =>
              prop_read'.raised = "none" /\ prop_read'.value = "disconnected"
        /\ MoveDisconnected =>
              /\ mv_result' = "DisconnectedError"
              /\ mv_pc' = "idle"
              /\ UNCHANGED <<_started_moving, user_setpoint, status, req_done>>
      ]_vars

\* Disconnected: move has raised DisconnectedError and report has returned.
C13_Witness ==
    /\ ~connected
    /\ mv_pc = "idle"
    /\ mv_result = "DisconnectedError"
    /\ prop_read = [property |-> "report", raised |-> "none", value |-> "disconnected"]

\* C14: neither subscription handler ever raises to the dispatcher that calls
\* it, whatever value is delivered and whether or not the signals read at a
\* completion can be read.
C14_HandlersNeverRaise == ~raised

\* The done-move values of the scenario, and the part of it delivered so far.
Scenario == <<1, 1, 0, 1>>
InScenario ==
    /\ Len(delivered) <= Len(Scenario)
    /\ \A i \in DOMAIN delivered : delivered[i] = Scenario[i]

\* What the handler has read shows no limit reached and no alarm.
NoIssue(read) ==
    /\ read # NoRead
    /\ read[4] = "NO_ALARM"
    /\ ~(read[1] = 0 /\ read[2] = 1)
    /\ ~(read[1] = 1 /\ read[3] = 1)

\* C15: from construction, with every signal readable, the done-move values
\* 1, 1, 0, 1 give no event for the two leading 1s, a start event at the third
\* update and a completion event at the fourth and nothing else; when the
\* completion is emitted with no limit reached and no alarm it has success
\* true.
C15_ScenarioEvents ==
    /\ [](InScenario /\ cb_pc = "idle" /\ ~raised =>
            /\ Len(delivered) <= 2 => events = <<>>
            /\ Len(delivered) = 3 =>
                  events = <<[type |-> "start", timestamp |-> 3, value |-> 0]>>
            /\ Len(delivered) = 4 =>
                  /\ Len(events) = 2
                  /\ events[1] = [type |-> "start", timestamp |-> 3, value |-> 0]
                  /\ events[2].type = "done"
                  /\ events[2].timestamp = 4
                  /\ events[2].value = 1)
    /\ [][ (delivered = Scenario /\ CompletionEmitted /\ NoIssue(cb_read)) =>
              events' = <<[type |-> "start", timestamp |-> 3, value |-> 0],
                          [type |-> "done", timestamp |-> 4, value |-> 1,
                           success |-> TRUE]>>
         ]_vars

\* The whole scenario has been delivered and has given its two events.
C15_Witness ==
    /\ delivered = Scenario
    /\ cb_pc = "idle"
    /\ n_moves = 0
    /\ events = <<[type |-> "start", timestamp |-> 3, value |-> 0],
                  [type |-> "done", timestamp |-> 4, value |-> 1, success |-> TRUE]>>

\* C16: from the first update on movingFlag is true exactly when the last
\* delivered value is not 1, and an update that leaves movingFlag as it was
\* (1 while not moving, any other value while moving) has emitted neither a
\* start nor a completion event.
C16_EdgeTriggered ==
    /\ delivered # <<>> => (_moving <=> delivered[Len(delivered)] # 1)
    /\ \A i \in DOMAIN delivered :
          (MovingBefore(i) <=> delivered[i] # 1) =>
              EventsAt("start", i) = {} /\ EventsAt("done", i) = {}

\* A 1 while not moving, then 0, then 2 while moving: only the 0 emitted.
C16_Witness ==
    /\ cb_pc = "idle"
    /\ delivered = <<1, 0, 2>>
    /\ _moving
    /\ events = <<[type |-> "start", timestamp |-> 2, value |-> 0]>>

\* C17: every step that delivers a readback value stores that value as the
\* position, whatever it is and whether or not the axis is moving, leaves the
\* moving flag and the started flag as they were and emits no event.
C17_ReadbackSetsPositionOnly ==
    [][ readback' # readback =>
           /\ _position' = readback'
           /\ UNCHANGED <<_moving, _started_moving, events, status, req_done>>
      ]_vars

\* A readback value has been stored, and the flags and the events are those
\* the done-move handler left after a motion has started and completed.
C17_Witness ==
    /\ _position = 2
    /\ readback = 2
    /\ ~_moving
    /\ _started_moving
    /\ Len(events) = 2
    /\ events[2].type = "done"

\* The handler takes its reading of the four signals.
SignalsRead == cb_read' # cb_read /\ cb_read' # NoRead

\* C18: the limit switches, the direction of travel and the alarm severity are
\* read only by the handler of an update that went moving->not-moving, and the
\* reading is their value at that moment; a change of any of them emits no
\* event and leaves every event already emitted, the reading already taken
\* and the success computed from it as they were; the completion emitted
\* carries the success of the reading, whatever the signals have become since.
C18_SampledAtCompletionEdge ==
    [][ /\ SignalsRead =>
              /\ cb_was_moving /\ ~_moving /\ cb_value = 1
              /\ signals # Untracked => cb_read' = signals
        /\ signals' # signals => UNCHANGED <<events, cb_read, cb_success, status>>
        /\ events' # events =>
              /\ Len(events') = Len(events) + 1
              /\ SubSeq(events', 1, Len(events)) = events
        /\ CompletionEmitted =>
              LastEvent(events').success =
                 (cb_read[4] = "NO_ALARM"
                    /\ ClaimedLimitSuccess(cb_read[1], cb_read[2], cb_read[3]))
      ]_vars

\* A completion was emitted with success true, the axis is stationary, and
\* then an alarm appeared and the low limit switch closed in the direction of
\* travel: the events are as they were.
C18_Witness ==
    /\ cb_pc = "idle"
    /\ ~_moving
    /\ signals = <<0, 1, 0, "MAJOR">>
    /\ Len(events) = 2
    /\ events[2].type = "done"
    /\ events[2].success

\* C19: move registers its status after it has reset the started flag and
\* before it writes the setpoint; the status is still pending and registered
\* when the setpoint is written, so that it is resolved only by a completion
\* event that comes after the write, and it stays registered for as long as it
\* is pending; a move with wait=false returns its status after the write.
C19_ResolvedAfterWrite ==
    /\ mv_pc = "L108" => mv_status = NoStatus /\ ~mv_wrote
    /\ mv_pc = "L109" => mv_status # NoStatus /\ ~mv_wrote
    /\ (mv_status # NoStatus /\ status[mv_status] # "pending") => mv_wrote
    /\ (mv_status # NoStatus /\ status[mv_status] = "pending") =>
           req_done = mv_status
    /\ (mv_pc = "idle" /\ mv_status # NoStatus /\ ~mv_wait) =>
           mv_wrote /\ mv_result = "returned"

\* get_input is entered past the platform test, and is left.
GetInputEntered == gi_pc = "idle" /\ gi_pc' # "idle"
GetInputLeft == gi_pc # "idle" /\ gi_pc' = "idle"

\* C20: get_input saves the terminal settings in force when it is entered,
\* keeps what it saved until it is left, and however it is left (one
\* character read, a sequence of three or six characters read, or an
\* interruption while it polls or reads) the terminal then has the saved
\* settings again and the call returns.
C20_SettingsRestored ==
    [][ /\ GetInputEntered => old_settings' = term
        /\ (gi_pc # "idle" /\ gi_pc' # "idle") => old_settings' = old_settings
        /\ GetInputLeft =>
              /\ term' = old_settings
              /\ term' \in TerminalModes
              /\ gi_result' = "returned"
              /\ Len(gi_returned') \in {0, 1, 3, 6} \/ gi_interrupted
      ]_vars

\* Entered with the terminal in raw mode and interrupted while polling: the
\* call has returned None and the terminal is in raw mode again.
C20_Witness ==
    /\ gi_pc = "idle"
    /\ gi_result = "returned"
    /\ gi_interrupted
    /\ gi_returned = NoInput
    /\ old_settings = "raw"
    /\ term = "raw"

\* A step of a move call whose target lies outside the limits: the call is
\* entered, or it ends with the ValueError of line 108.
InvalidMoveStep ==
    /\ n_moves' # n_moves \/ mv_pc' # mv_pc
    /\ OutsideLimits(mv_position')
    /\ mv_result' \in {"none", "ValueError"}

\* C21: no step of a move call that fails with ValueError changes the started
\* flag, the moving flag or the position, and none registers or resolves a
\* status.
C21_InvalidMoveChangesNothing ==
    [][ InvalidMoveStep =>
           UNCHANGED <<_started_moving, _moving, _position, status, req_done>>
      ]_vars

\* The status registered by a move is resolved by a completion event.
StatusResolved ==
    /\ CompletionEmitted
    /\ req_done # NoStatus
    /\ status[req_done] = "pending"

\* C22: a completion event resolves the status a move has registered only
\* when a start event has been emitted since that move was requested: the
\* motion that ends is one that began after the request.
C22_ResolvedByOwnMotion ==
    [][ StatusResolved => starts_since_move >= 1 ]_vars

\* No single done-move update has emitted both a start and a completion.
NoUpdateEmitsBoth ==
    \A i \in DOMAIN delivered :
        EventsAt("start", i) = {} \/ EventsAt("done", i) = {}

C24_SimMoveStartsAndCompletes ==
    (sim_pc = "idle" /\ sim_returned) =>
        /\ Len(events) = 2 * n_sim_moves
        /\ \A k \in DOMAIN events :
              events[k].type = IF k % 2 = 1 THEN "start" ELSE "done"
        /\ motor_is_moving = 0
        /\ motor_done_move = 1
        /\ user_setpoint = sim_position

====
